---- MODULE Spec2Model ----
(***************************************************************************)
(* Model of the site generator: the generate request handler               *)
(* (src/app/api/generate/route.ts), the request and plan schemas           *)
(* (src/lib/validation.ts), the AI client generateSitePlan (second half of *)
(* src/lib/zip.ts) and the code generator buildFilesFromPlan               *)
(* (src/unnamed/part_006).                                                 *)
(*                                                                         *)
(* JavaScript values are tagged records [k, s, a, o]: k is the kind, s the *)
(* text of a string / number / boolean, a the elements of an array and o   *)
(* the property map of an object.  Text produced by template literals is   *)
(* a sequence of string tokens: the literal chunks of the template and the *)
(* interpolated values, in order.  A TypeError raised while a template is  *)
(* evaluated is the token THROW.                                           *)
(***************************************************************************)
EXTENDS Integers, Sequences, FiniteSets, TLC

VARIABLES
    pc,             \* position of the generate handler: idle / awaitAI / responded
    body,           \* the request body as received (raw)
    validatedData,  \* BuildRequestSchema.parse(body), Undef until validated
    aiCalls,        \* calls to openai.chat.completions.create made for this request
    aiReply,        \* outcome of the outstanding AI call
    genCalled,      \* buildFilesFromPlan was invoked for this request
    genPlan,        \* the plan handed to buildFilesFromPlan
    genResult,      \* outcome of buildFilesFromPlan
    response,       \* the HTTP response of the handler
    xpc,            \* position of the export handler: idle / responded
    xBody,          \* the export request body as received (raw)
    zipOutcome,     \* zipFiles for this export request: none / resolved / rejected
    xResponse,      \* the HTTP response of the export handler
    conc,           \* concurrent handling: the local state of each request in flight
    ui              \* the browser: the mounted page, its React state, window.__generatedData

genVars == <<pc, body, validatedData, aiCalls, aiReply, genCalled, genPlan, genResult, response>>
xVars   == <<xpc, xBody, zipOutcome, xResponse>>
vars    == <<genVars, xVars, conc, ui>>

---------------------------------------------------------------------------
(* Bounds *)

MaxSections == 2    \* longest plan.sections list enumerated
MaxFiles    == 2    \* longest files list of an export request enumerated
NumRequests == 2    \* requests handled concurrently

---------------------------------------------------------------------------
(* JavaScript values *)

Undef   == [k |-> "undef", s |-> "", a |-> <<>>, o |-> <<>>]
Null    == [k |-> "null",  s |-> "", a |-> <<>>, o |-> <<>>]
Thrown  == [k |-> "throw", s |-> "", a |-> <<>>, o |-> <<>>]
Str(x)  == [k |-> "str",  s |-> x, a |-> <<>>, o |-> <<>>]
Num(x)  == [k |-> "num",  s |-> x, a |-> <<>>, o |-> <<>>]
Bool(x) == [k |-> "bool", s |-> x, a |-> <<>>, o |-> <<>>]
Arr(x)  == [k |-> "arr",  s |-> "", a |-> x, o |-> <<>>]
Obj(f)  == [k |-> "obj",  s |-> "", a |-> <<>>, o |-> f]

THROW == "#TypeError#"

\* v.key : property read; reading a property of undefined or null throws
Get(v, key) ==
    IF v.k \in {"undef", "null", "throw"} THEN Thrown
    ELSE IF v.k = "obj" /\ key \in DOMAIN v.o THEN v.o[key]
    ELSE Undef

\* ToBoolean
Truthy(v) ==
    CASE v.k \in {"undef", "null"} -> FALSE
      [] v.k = "str"  -> v.s # ""
      [] v.k = "num"  -> v.s \notin {"0", "NaN"}
      [] v.k = "bool" -> v.s = "true"
      [] OTHER -> TRUE

\* a || b without its right operand
OrElseNoDefault(v, d) == v

\* a || b
OrElse(v, d) == IF v.k = "throw" THEN v ELSE IF Truthy(v) THEN v ELSE d

\* a === 'literal'
StrictEqStr(v, lit) == v.k = "str" /\ v.s = lit

RECURSIVE Concat(_)
Concat(ss) == IF ss = <<>> THEN <<>> ELSE Head(ss) \o Concat(Tail(ss))

RECURSIVE Join(_, _)
\* Array.prototype.join on an array of token sequences
Join(ss, sep) ==
    IF ss = <<>> THEN <<>>
    ELSE IF Len(ss) = 1 THEN ss[1]
    ELSE ss[1] \o sep \o Join(Tail(ss), sep)

RECURSIVE ToStr(_)
\* String(v), as a template literal interpolates it
ToStr(v) ==
    CASE v.k = "throw" -> <<THROW>>
      [] v.k = "undef" -> <<"undefined">>
      [] v.k = "null"  -> <<"null">>
      [] v.k \in {"str", "num", "bool"} -> <<v.s>>
      [] v.k = "obj"   -> <<"[object Object]">>
      [] v.k = "arr"   ->
            Join([i \in 1..Len(v.a) |->
                    IF v.a[i].k \in {"undef", "null"} THEN <<>> ELSE ToStr(v.a[i])],
                 <<",">>)

\* property names in the order the enumerated objects list them
KeyOrder == <<"meta", "assets", "sections", "style",
              "id", "type", "props",
              "title", "subtitle", "cta", "items", "description",
              "email", "phone", "address", "language", "images",
              "colors", "font", "primary", "secondary", "background", "text",
              "intent", "framework", "theme", "dark", "brand", "name", "tone", "extra">>

KeysOf(v) == SelectSeq(KeyOrder, LAMBDA key : key \in DOMAIN v.o)

RECURSIVE JsonStringify(_, _)
\* JSON.stringify(v, null, pretty ? 2 : undefined), the indentation widths left out
JsonStringify(v, pretty) ==
    LET sep == IF pretty THEN <<",\n">> ELSE <<",">>
        open(c) == IF pretty THEN <<c \o "\n">> ELSE <<c>>
        close(c) == IF pretty THEN <<"\n" \o c>> ELSE <<c>>
    IN  CASE v.k = "throw" -> <<THROW>>
          [] v.k = "undef" -> <<"undefined">>
          [] v.k = "null"  -> <<"null">>
          [] v.k = "str"   -> <<"\"" \o v.s \o "\"">>
          [] v.k \in {"num", "bool"} -> <<v.s>>
          [] v.k = "arr"   ->
                IF v.a = <<>> THEN <<"[]">>
                ELSE open("[")
                     \o Join([i \in 1..Len(v.a) |->
                                IF v.a[i].k = "undef" THEN <<"null">>
                                ELSE JsonStringify(v.a[i], pretty)], sep)
                     \o close("]")
          [] v.k = "obj"   ->
                IF DOMAIN v.o = {} THEN <<"{}">>
                ELSE LET ks == KeysOf(v)
                     IN open("{")
                        \o Join([i \in 1..Len(ks) |->
                                   <<"\"" \o ks[i] \o "\":">> \o JsonStringify(v.o[ks[i]], pretty)], sep)
                        \o close("}")

HasThrow(content) == \E i \in 1..Len(content) : content[i] = THROW

---------------------------------------------------------------------------
(* Schemas: src/lib/validation.ts *)

Intent2000 == "<intent of 2000 characters>"
Intent2001 == "<intent of 2001 characters>"

\* String.prototype.length of the enumerated strings
StrLen(str) ==
    CASE str = Intent2000 -> 2000
      [] str = Intent2001 -> 2001
      [] OTHER -> Len(str)

IntentMin == 3
IntentMax == 2000

Frameworks   == {"vanilla", "react", "next"}
SectionTypes == {"hero", "features", "menu", "gallery", "pricing", "contact", "faq"}
Languages    == {"fa", "en"}
Tones        == {"formal", "casual", "playful"}

IdxStr == <<"0", "1", "2", "3">>

\* an issue that does not name the field it was raised for
IssueNoPath(path, code) == [path |-> <<>>, code |-> code]

\* a ZodIssue: the path of the field and the issue code
Issue(path, code) == [path |-> path, code |-> code]

\* z.string()
ZString(v, path) ==
    IF v.k # "str" THEN <<Issue(path, "invalid_type")>> ELSE <<>>

\* z.string().min(3).max(2000)
ZIntent(v, path) ==
    IF v.k # "str" THEN <<Issue(path, "invalid_type")>>
    ELSE (IF StrLen(v.s) < IntentMin THEN <<Issue(path, "too_small")>> ELSE <<>>)
         \o (IF StrLen(v.s) > IntentMax THEN <<Issue(path, "too_big")>> ELSE <<>>)

\* z.boolean()
ZBoolean(v, path) ==
    IF v.k # "bool" THEN <<Issue(path, "invalid_type")>> ELSE <<>>

\* z.enum([...])
ZEnum(v, values, path) ==
    IF v.k # "str" THEN <<Issue(path, "invalid_type")>>
    ELSE IF v.s \notin values THEN <<Issue(path, "invalid_enum_value")>>
    ELSE <<>>

\* theme: z.object({primary, secondary?, font?, dark?})
ZTheme(v, path) ==
    IF v.k # "obj" THEN <<Issue(path, "invalid_type")>>
    ELSE ZString(Get(v, "primary"), path \o <<"primary">>)
         \o (IF Get(v, "secondary").k = "undef" THEN <<>>
             ELSE ZString(Get(v, "secondary"), path \o <<"secondary">>))
         \o (IF Get(v, "font").k = "undef" THEN <<>>
             ELSE ZString(Get(v, "font"), path \o <<"font">>))
         \o (IF Get(v, "dark").k = "undef" THEN <<>>
             ELSE ZBoolean(Get(v, "dark"), path \o <<"dark">>))

\* ZSections without its .min(1)
ZSectionsNoMin(v, path) ==
    IF v.k # "arr" THEN <<Issue(path, "invalid_type")>>
    ELSE Concat([i \in 1..Len(v.a) |-> ZEnum(v.a[i], SectionTypes, path \o <<IdxStr[i]>>)])

\* sections: z.array(z.enum([...])).min(1)
ZSections(v, path) ==
    IF v.k # "arr" THEN <<Issue(path, "invalid_type")>>
    ELSE (IF Len(v.a) < 1 THEN <<Issue(path, "too_small")>> ELSE <<>>)
         \o Concat([i \in 1..Len(v.a) |-> ZEnum(v.a[i], SectionTypes, path \o <<IdxStr[i]>>)])

\* brand: z.object({name?, tone?}).optional()
ZBrand(v, path) ==
    IF v.k = "undef" THEN <<>>
    ELSE IF v.k # "obj" THEN <<Issue(path, "invalid_type")>>
    ELSE (IF Get(v, "name").k = "undef" THEN <<>>
          ELSE ZString(Get(v, "name"), path \o <<"name">>))
         \o (IF Get(v, "tone").k = "undef" THEN <<>>
             ELSE ZEnum(Get(v, "tone"), Tones, path \o <<"tone">>))

\* the issues BuildRequestSchema.parse(v) raises, in schema order
BuildRequestIssues(v) ==
    IF v.k # "obj" THEN <<Issue(<<>>, "invalid_type")>>
    ELSE ZIntent(Get(v, "intent"), <<"intent">>)
         \o ZEnum(Get(v, "framework"), Frameworks, <<"framework">>)
         \o ZTheme(Get(v, "theme"), <<"theme">>)
         \o ZSections(Get(v, "sections"), <<"sections">>)
         \o ZEnum(Get(v, "language"), Languages, <<"language">>)
         \o ZBrand(Get(v, "brand"), <<"brand">>)

\* z.object() keeps the keys of its shape and strips the others
Strip(v, shape) == Obj([key \in (DOMAIN v.o) \cap shape |-> v.o[key]])

\* a parse that fills in theme.dark = false when the input has none
BuildRequestDataDefaults(v) ==
    LET top == Strip(v, {"intent", "framework", "theme", "sections", "language", "brand"})
    IN  Obj([key \in DOMAIN top.o |->
               CASE key = "theme" ->
                        Obj([kk \in ((DOMAIN top.o[key].o) \cap {"primary", "secondary", "font"})
                                      \cup {"dark"} |->
                               IF kk \in DOMAIN top.o[key].o THEN top.o[key].o[kk]
                               ELSE Bool("false")])
                 [] key = "brand" -> Strip(top.o[key], {"name", "tone"})
                 [] OTHER -> top.o[key]])

\* the value BuildRequestSchema.parse(v) returns for an accepted v
BuildRequestData(v) ==
    LET top == Strip(v, {"intent", "framework", "theme", "sections", "language", "brand"})
    IN  Obj([key \in DOMAIN top.o |->
               CASE key = "theme" -> Strip(top.o[key], {"primary", "secondary", "font", "dark"})
                 [] key = "brand" -> Strip(top.o[key], {"name", "tone"})
                 [] OTHER -> top.o[key]])

\* BuildRequestSchema.parse: the parsed data, or a ZodError carrying the issues
BuildRequestParse(v) ==
    LET iss == BuildRequestIssues(v)
    IN  IF iss = <<>> THEN [ok |-> TRUE, data |-> BuildRequestData(v), issues |-> <<>>]
        ELSE [ok |-> FALSE, data |-> Undef, issues |-> iss]

\* SitePlanSchema: whether v has the SitePlan shape
SitePlanValid(v) ==
    /\ v.k = "obj"
    /\ Get(v, "meta").k = "obj"
    /\ Get(Get(v, "meta"), "title").k = "str"
    /\ Get(Get(v, "meta"), "description").k = "str"
    /\ Get(Get(v, "meta"), "language").k = "str"
    /\ Get(v, "assets").k = "obj"
    /\ Get(Get(v, "assets"), "images").k = "arr"
    /\ \A i \in 1..Len(Get(Get(v, "assets"), "images").a) :
          LET img == Get(Get(v, "assets"), "images").a[i]
          IN  /\ img.k = "obj"
              /\ Get(img, "id").k = "str"
              /\ Get(img, "prompt").k \in {"undef", "str"}
              /\ Get(img, "url").k \in {"undef", "str"}
    /\ Get(v, "sections").k = "arr"
    /\ \A i \in 1..Len(Get(v, "sections").a) :
          LET sec == Get(v, "sections").a[i]
          IN  /\ sec.k = "obj"
              /\ Get(sec, "id").k = "str"
              /\ Get(sec, "type").k = "str"
              /\ Get(sec, "props").k = "obj"
    /\ Get(v, "style").k = "obj"
    /\ Get(Get(v, "style"), "colors").k = "obj"
    /\ \A key \in DOMAIN Get(Get(v, "style"), "colors").o :
          Get(Get(v, "style"), "colors").o[key].k = "str"
    /\ Get(Get(v, "style"), "font").k \in {"undef", "str"}

---------------------------------------------------------------------------
(* Code generator: src/unnamed/part_006 (lib/codegen.ts) *)

DirRtl  == "dir=\"rtl\""
AttrGap == "\" "

\* the chunks that open the <html> element of each flavor's root document
VanillaHtmlOpen == "<!DOCTYPE html>\n<html lang=\""
LayoutHtmlOpen  == "',\n}\n\nexport default function RootLayout({ children }) {\n  return (\n    <html lang=\""
ReactHtmlOpen   == "<!DOCTYPE html>\n<html lang=\""

\* the chunks that open a section fragment, a hero title and a features grid
VanillaSectionOpen == "\n    <section id=\""
VanillaHeroTitleOpen == "\" class=\"hero\">\n      <h1>"
VanillaGridOpen == "</h2>\n      <div class=\"features-grid\">\n        "
VanillaGridClose == "\n      </div>\n    </section>"
ReactHeroOpen == "\n  const Hero = () => (\n    <section className=\"hero\">\n      <h1>"
ReactFeaturesOpen == "\n  const Features = () => (\n    <section className=\"features\">\n      <h2>"
ReactGridOpen == "</h2>\n      <div className=\"features-grid\">\n        "
ReactGridClose == "\n      </div>\n    </section>\n  );"
NextSectionOpen == "\n        <section className=\"mb-12\">\n          <h2 className=\"text-2xl font-semibold mb-4\">"

\* the chunks that end where a generated file names another local file
StylesheetHrefOpen == "\">\n  <link rel=\"stylesheet\" href=\""
ScriptSrcOpen      == "\n  </main>\n  <script src=\""
ImportCssOpen      == "import React from 'react';\nimport '"
ImportGlobalsOpen  == "import type { Metadata } from 'next'\nimport '"
ImportAppOpen      == "import React from 'react';\nimport { createRoot } from 'react-dom/client';\nimport App from '"

\* the chunks around the serialized props of a generic fragment
VanillaPreOpen  == "\">\n      <pre>"
VanillaPreClose == "</pre>\n    </section>"
NextPreOpen     == "</h2>\n          <pre className=\"bg-gray-100 p-4 rounded\">"
NextPreClose    == "</pre>\n        </section>"

\* one feature item of renderHtml
HtmlFeatureItem(item) ==
    <<"\n        <div class=\"feature-item\">\n          <h3>">>
    \o ToStr(Get(item, "title"))
    \o <<"</h3>\n          <p>">>
    \o ToStr(Get(item, "description"))
    \o <<"</p>\n        </div>">>

\* (section.props.items || []).map(item => ...).join('')
HtmlFeatureItems(props) ==
    LET items == OrElse(Get(props, "items"), Arr(<<>>))
    IN  IF items.k # "arr" THEN <<THROW>>
        ELSE Join([i \in 1..Len(items.a) |-> HtmlFeatureItem(items.a[i])], <<>>)

\* the switch of renderHtml: the fragment of one section
HtmlSection(section) ==
    LET type  == Get(section, "type")
        props == Get(section, "props")
    IN  IF type.k = "throw" THEN <<THROW>>
        ELSE IF StrictEqStr(type, "hero") THEN
            <<VanillaSectionOpen>> \o ToStr(Get(section, "id"))
            \o <<VanillaHeroTitleOpen>>
            \o ToStr(OrElse(Get(props, "title"), Str("Welcome")))
            \o <<"</h1>\n      <p>">>
            \o ToStr(OrElse(Get(props, "subtitle"), Str("")))
            \o <<"</p>\n      ">>
            \o (IF Truthy(Get(props, "cta"))
                THEN <<"<button class=\"cta-button\">">> \o ToStr(Get(props, "cta")) \o <<"</button>">>
                ELSE <<"">>)
            \o <<"\n    </section>">>
        ELSE IF StrictEqStr(type, "features") THEN
            <<VanillaSectionOpen>> \o ToStr(Get(section, "id"))
            \o <<"\" class=\"features\">\n      <h2>">>
            \o ToStr(OrElse(Get(props, "title"), Str("Features")))
            \o <<VanillaGridOpen>>
            \o HtmlFeatureItems(props)
            \o <<VanillaGridClose>>
        ELSE IF StrictEqStr(type, "contact") THEN
            <<VanillaSectionOpen>> \o ToStr(Get(section, "id"))
            \o <<"\" class=\"contact\">\n      <h2>">>
            \o ToStr(OrElse(Get(props, "title"), Str("Contact")))
            \o <<"</h2>\n      <p>">>
            \o ToStr(OrElse(Get(props, "email"), Str("")))
            \o <<"</p>\n      <p>">>
            \o ToStr(OrElse(Get(props, "phone"), Str("")))
            \o <<"</p>\n      <p>">>
            \o ToStr(OrElse(Get(props, "address"), Str("")))
            \o <<"</p>\n    </section>">>
        ELSE
            <<VanillaSectionOpen>> \o ToStr(Get(section, "id"))
            \o <<"\" class=\"">> \o ToStr(type)
            \o <<VanillaPreOpen>>
            \o JsonStringify(props, TRUE)
            \o <<VanillaPreClose>>

\* plan.sections.map(section => ...) of renderHtml: .map on a non-array throws
HtmlSections(plan) ==
    LET list == Get(plan, "sections")
    IN  IF list.k # "arr" THEN <<<<THROW>>>>
        ELSE [i \in 1..Len(list.a) |-> HtmlSection(list.a[i])]

renderHtml(plan) ==
    LET language == Get(Get(plan, "meta"), "language")
        isRTL    == StrictEqStr(language, "fa")
        sections == Join(HtmlSections(plan), <<"\n">>)
    IN  <<VanillaHtmlOpen>> \o ToStr(language) \o <<AttrGap>>
        \o <<IF isRTL THEN DirRtl ELSE "">>
        \o <<">\n<head>\n  <meta charset=\"UTF-8\">\n  <meta name=\"viewport\" content=\"width=device-width, initial-scale=1.0\">\n  <title>">>
        \o ToStr(Get(Get(plan, "meta"), "title"))
        \o <<"</title>\n  <meta name=\"description\" content=\"">>
        \o ToStr(Get(Get(plan, "meta"), "description"))
        \o <<StylesheetHrefOpen, "styles.css", "\">\n</head>\n<body>\n  <main>\n">>
        \o sections
        \o <<ScriptSrcOpen, "main.js", "\"></script>\n</body>\n</html>">>

DefaultFont == "system-ui, -apple-system, sans-serif"

renderCss(plan) ==
    LET colors == Get(Get(plan, "style"), "colors")
        font   == OrElse(Get(Get(plan, "style"), "font"), Str(DefaultFont))
    IN  <<"* { margin: 0; padding: 0; box-sizing: border-box; }\n\nbody {\n  font-family: ">>
        \o ToStr(font)
        \o <<";\n  color: ">>
        \o ToStr(OrElse(Get(colors, "text"), Str("#333")))
        \o <<";\n  background: ">>
        \o ToStr(OrElse(Get(colors, "background"), Str("#fff")))
        \o <<";\n  line-height: 1.6;\n}\n\nmain { ... }\n\nsection { ... }\n\n.hero {\n  text-align: center;\n  padding: 60px 20px;\n  background: ">>
        \o ToStr(OrElse(Get(colors, "primary"), Str("#007bff")))
        \o <<";\n  color: white;\n  border-radius: 8px;\n}\n\n.hero h1 { ... }\n\n.cta-button {\n  background: white;\n  color: ">>
        \o ToStr(OrElse(Get(colors, "primary"), Str("#007bff")))
        \o <<";\n  padding: 12px 30px; ...\n}\n\n.features-grid { ... }\n\n.feature-item {\n  padding: 20px;\n  background: ">>
        \o ToStr(OrElse(Get(colors, "secondary"), Str("#f8f9fa")))
        \o <<";\n  border-radius: 8px;\n}\n\n.contact {\n  background: ">>
        \o ToStr(OrElse(Get(colors, "secondary"), Str("#f8f9fa")))
        \o <<";\n  padding: 40px;\n  border-radius: 8px;\n}">>

renderJs(plan) ==
    <<"// Site initialization\ndocument.addEventListener('DOMContentLoaded', function() {\n  console.log('Site loaded: ">>
    \o ToStr(Get(Get(plan, "meta"), "title"))
    \o <<"');\n  // Add smooth scrolling\n  ...\n});">>

\* the switch of renderReactApp: the component declared for one section, '' by default
ReactSection(section) ==
    LET type  == Get(section, "type")
        props == Get(section, "props")
    IN  IF type.k = "throw" THEN <<THROW>>
        ELSE IF StrictEqStr(type, "hero") THEN
            <<ReactHeroOpen>>
            \o ToStr(OrElse(Get(props, "title"), Str("Welcome")))
            \o <<"</h1>\n      <p>">>
            \o ToStr(OrElse(Get(props, "subtitle"), Str("")))
            \o <<"</p>\n      ">>
            \o (IF Truthy(Get(props, "cta"))
                THEN <<"<button className=\"cta-button\">">> \o ToStr(Get(props, "cta")) \o <<"</button>">>
                ELSE <<"">>)
            \o <<"\n    </section>\n  );">>
        ELSE IF StrictEqStr(type, "features") THEN
            <<ReactFeaturesOpen>>
            \o ToStr(OrElse(Get(props, "title"), Str("Features")))
            \o <<ReactGridOpen>>
            \o JsonStringify(OrElse(Get(props, "items"), Arr(<<>>)), FALSE)
            \o <<ReactGridClose>>
        ELSE <<>>

\* plan.sections.map(section => ...) of renderReactApp
ReactSections(plan) ==
    LET list == Get(plan, "sections")
    IN  IF list.k # "arr" THEN <<<<THROW>>>>
        ELSE [i \in 1..Len(list.a) |-> ReactSection(list.a[i])]

renderReactApp(plan) ==
    LET mapped   == ReactSections(plan)
        sections == Join(SelectSeq(mapped, LAMBDA frag : frag # <<>>), <<"\n">>)
    IN  <<ImportCssOpen, "./App.css", "';\n\nfunction App() {\n  ">>
        \o sections
        \o <<"\n\n  return (\n    <div className=\"App\">\n      <Hero />\n      <Features />\n    </div>\n  );\n}\n\nexport default App;">>

\* the fragment renderNextPage emits for one section
NextSection(section) ==
    LET props == Get(section, "props")
    IN  <<NextSectionOpen>>
        \o ToStr(OrElse(Get(props, "title"), Get(section, "type")))
        \o <<NextPreOpen>>
        \o JsonStringify(props, TRUE)
        \o <<NextPreClose>>

\* plan.sections.map(section => ...) of renderNextPage
NextSections(plan) ==
    LET list == Get(plan, "sections")
    IN  IF list.k # "arr" THEN <<<<THROW>>>>
        ELSE [i \in 1..Len(list.a) |-> NextSection(list.a[i])]

renderNextPage(plan) ==
    <<"export default function Home() {\n  return (\n    <main className=\"...\">\n      <div className=\"...\">\n        <h1 className=\"text-4xl font-bold mb-8\">">>
    \o ToStr(Get(Get(plan, "meta"), "title"))
    \o <<"</h1>\n        <p className=\"text-xl mb-8\">">>
    \o ToStr(Get(Get(plan, "meta"), "description"))
    \o <<"</p>\n        ">>
    \o Join(NextSections(plan), <<>>)
    \o <<"\n      </div>\n    </main>\n  );\n}">>

baseLayout(plan) ==
    <<ImportGlobalsOpen, "./globals.css", "'\n\nexport const metadata: Metadata = {\n  title: '">>
    \o ToStr(Get(Get(plan, "meta"), "title"))
    \o <<"',\n  description: '">>
    \o ToStr(Get(Get(plan, "meta"), "description"))
    \o <<LayoutHtmlOpen>>
    \o ToStr(Get(Get(plan, "meta"), "language"))
    \o <<AttrGap>>
    \o <<IF StrictEqStr(Get(Get(plan, "meta"), "language"), "fa") THEN DirRtl ELSE "">>
    \o <<">\n      <body>{children}</body>\n    </html>\n  )\n}">>

tailwindBase == <<"@tailwind base;\n@tailwind components;\n@tailwind utilities;">>

tailwindConfig(plan) ==
    <<"import type { Config } from 'tailwindcss'\n\nconst config: Config = {\n  content: [...],\n  theme: {\n    extend: {\n      colors: ">>
    \o JsonStringify(Get(Get(plan, "style"), "colors"), TRUE)
    \o <<"\n    },\n  },\n  plugins: [],\n}\nexport default config">>

basicPkgJson(framework) ==
    <<"{\n  \"name\": \"generated-site\",\n  \"version\": \"1.0.0\",\n  \"private\": true,\n  \"scripts\": ">>
    \o (IF framework = "react"
        THEN <<"{ \"start\": \"react-scripts start\", \"build\": \"react-scripts build\", \"test\": \"react-scripts test\", \"eject\": \"react-scripts eject\" }">>
        ELSE <<"{ \"dev\": \"next dev\", \"build\": \"next build\", \"start\": \"next start\", \"lint\": \"next lint\" }">>)
    \o <<",\n  \"dependencies\": ">>
    \o (IF framework = "react"
        THEN <<"{ \"react\": \"^18.0.0\", \"react-dom\": \"^18.0.0\", \"react-scripts\": \"5.0.1\" }">>
        ELSE <<"{ \"next\": \"^14.0.0\", \"react\": \"^18.0.0\", \"react-dom\": \"^18.0.0\" }">>)
    \o <<"\n}">>

\* src/main.jsx of the react flavor
ReactMainJsx ==
    <<ImportAppOpen, "./App", "';\ncreateRoot(document.getElementById('root')).render(<App/>);">>

\* public/index.html of the react flavor
ReactIndexHtml(plan) ==
    <<ReactHtmlOpen>>
    \o ToStr(Get(Get(plan, "meta"), "language"))
    \o <<"\">\n<head>\n  <meta charset=\"utf-8\" />\n  <meta name=\"viewport\" content=\"width=device-width, initial-scale=1\" />\n  <title>">>
    \o ToStr(Get(Get(plan, "meta"), "title"))
    \o <<"</title>\n</head>\n<body>\n  <div id=\"root\"></div>\n</body>\n</html>">>

\* every entry put at one path
FileFlat(path, content) == [path |-> "index.html", content |-> content]

File(path, content) == [path |-> path, content |-> content]

\* a list without the style sheet the page links
FilesOfNoStyles(plan, framework) ==
    << File("index.html", renderHtml(plan)),
       File("main.js", renderJs(plan)) >>

\* the file list buildFilesFromPlan assembles for a flavor
FilesOf(plan, framework) ==
    IF framework = "vanilla" THEN
        << File("index.html", renderHtml(plan)),
           File("styles.css", renderCss(plan)),
           File("main.js", renderJs(plan)) >>
    ELSE IF framework = "react" THEN
        << File("package.json", basicPkgJson("react")),
           File("src/App.jsx", renderReactApp(plan)),
           File("src/main.jsx", ReactMainJsx),
           File("public/index.html", ReactIndexHtml(plan)),
           File("src/App.css", renderCss(plan)) >>
    ELSE
        << File("package.json", basicPkgJson("next")),
           File("app/page.tsx", renderNextPage(plan)),
           File("app/layout.tsx", baseLayout(plan)),
           File("app/globals.css", tailwindBase),
           File("tailwind.config.ts", tailwindConfig(plan)) >>

\* buildFilesFromPlan: the file list, or a TypeError when a template threw
buildFilesFromPlan(plan, framework) ==
    LET files == FilesOf(plan, framework)
    IN  IF \E i \in 1..Len(files) : HasThrow(files[i].content)
        THEN [threw |-> TRUE, files |-> <<>>]
        ELSE [threw |-> FALSE, files |-> files]

---------------------------------------------------------------------------
(* Inputs: request bodies and AI replies *)

With(v, key, val) == Obj([kk \in (DOMAIN v.o) \cup {key} |-> IF kk = key THEN val ELSE v.o[kk]])
Without(v, key)   == Obj([kk \in (DOMAIN v.o) \ {key} |-> v.o[kk]])

\* the request of the spec's scenario A, for a flavor
BaseReq(fw) ==
    Obj([intent    |-> Str("A bakery site"),
         framework |-> Str(fw),
         theme     |-> Obj([primary |-> Str("#000000")]),
         sections  |-> Arr(<<Str("hero")>>),
         language  |-> Str("en")])

FullReq ==
    Obj([intent    |-> Str("abc"),
         framework |-> Str("vanilla"),
         theme     |-> Obj([primary |-> Str("#7c3aed"), secondary |-> Str("#fff"),
                            font |-> Str("Vazir"), dark |-> Bool("false")]),
         sections  |-> Arr(<<Str("hero"), Str("faq"), Str("hero")>>),
         language  |-> Str("fa"),
         brand     |-> Obj([name |-> Str("Nan"), tone |-> Str("casual")])])

\* the body Home.handleQuickGenerate sends for a prompt
HomeBody(prompt) ==
    Obj([intent    |-> Str(prompt),
         framework |-> Str("vanilla"),
         theme     |-> Obj([primary |-> Str("#6B46C1"), secondary |-> Str("#EC4899"),
                            font |-> Str("Inter"), dark |-> Bool("false")]),
         sections  |-> Arr(<<Str("hero"), Str("features"), Str("contact")>>),
         language  |-> Str("en"),
         brand     |-> Obj([name |-> Str("Generated Site"), tone |-> Str("casual")])])

\* the body PromptForm.handleSubmit sends for the form's state
PromptFormBody(intent, framework, primaryColor, sections, language) ==
    Obj([intent    |-> Str(intent),
         framework |-> Str(framework),
         theme     |-> Obj([primary |-> Str(primaryColor), dark |-> Bool("false")]),
         sections  |-> Arr([i \in 1..Len(sections) |-> Str(sections[i])]),
         language  |-> Str(language),
         brand     |-> Obj([tone |-> Str("casual")])])

\* the body ModernPromptForm.handleSubmit sends for the form's state
ModernPromptFormBody(intent, framework, primaryColor, sections, language) ==
    Obj([intent    |-> Str(intent),
         framework |-> Str(framework),
         theme     |-> Obj([primary |-> Str(primaryColor), dark |-> Bool("false")]),
         sections  |-> Arr([i \in 1..Len(sections) |-> Str(sections[i])]),
         language  |-> Str(language),
         brand     |-> Obj([tone |-> Str("modern")])])

\* the forms' initial choice of sections
DefaultSections == <<"hero", "features", "contact">>

ValidBodies ==
    {BaseReq(fw) : fw \in Frameworks}
    \cup {FullReq,
          With(BaseReq("vanilla"), "intent", Str(Intent2000)),
          With(BaseReq("react"), "extra", Str("ignored")),
          With(FullReq, "extra", Str("ignored")),
          With(BaseReq("next"), "theme",
               Obj([primary |-> Str("#000000"), extra |-> Str("ignored")]))}

InvalidBodies ==
    {With(BaseReq("vanilla"), "intent", Str("ab")),
     With(BaseReq("vanilla"), "intent", Str(Intent2001)),
     With(BaseReq("vanilla"), "intent", Num("7")),
     Without(BaseReq("vanilla"), "intent"),
     With(BaseReq("vanilla"), "framework", Str("svelte")),
     Without(BaseReq("next"), "theme"),
     With(BaseReq("next"), "theme", Obj(<<>>)),
     With(BaseReq("next"), "theme", Obj([primary |-> Str("#000"), dark |-> Str("yes")])),
     With(BaseReq("react"), "sections", Arr(<<>>)),
     With(BaseReq("react"), "sections", Arr(<<Str("hero"), Str("blog")>>)),
     Without(BaseReq("react"), "sections"),
     With(BaseReq("vanilla"), "language", Str("de")),
     With(BaseReq("vanilla"), "brand", Obj([tone |-> Str("rude")])),
     With(With(With(BaseReq("vanilla"), "intent", Str("ab")), "sections", Arr(<<>>)),
          "language", Str("de")),
     HomeBody("ab"),
     PromptFormBody("ab", "next", "#000000", DefaultSections, "en"),
     ModernPromptFormBody("ab", "next", "#000000", DefaultSections, "en"),
     Null,
     Arr(<<>>)}

\* req.json(): a body that is JSON text for a value, or text that does not parse
RawBodies ==
    {[json |-> TRUE, val |-> v] : v \in ValidBodies \cup InvalidBodies}
    \cup {[json |-> FALSE, val |-> Undef]}

Item(title, description) == Obj([title |-> Str(title), description |-> Str(description)])

Sec(id, type, props) == Obj([id |-> Str(id), type |-> Str(type), props |-> Obj(props)])

\* sections SitePlanSchema accepts: props is an open map
SectionSet ==
    {Sec("hero", "hero", <<>>),
     Sec("hero", "hero", [title |-> Str("Welcome Bakery"), subtitle |-> Str("Fresh"), cta |-> Str("Order")]),
     Sec("hero", "hero", [title |-> Str(""), cta |-> Num("0")]),
     Sec("features", "features", <<>>),
     Sec("features", "features", [title |-> Str("Why us"), items |-> Arr(<<Item("Fast", "Quick")>>)]),
     Sec("features", "features", [items |-> Str("soon")]),
     Sec("features", "features", [items |-> Arr(<<Null>>)]),
     Sec("features", "features", [items |-> Arr(<<Str("plain")>>)]),
     Sec("contact", "contact", [email |-> Str("a@b.c")]),
     Sec("gallery", "gallery", <<>>),
     Sec("pricing", "pricing", [title |-> Str("Plans"), items |-> Arr(<<Item("Pro", "9")>>)])}

SectionSeqs == UNION {[1..n -> SectionSet] : n \in 0..MaxSections}

StyleSet ==
    {Obj([colors |-> Obj(<<>>)]),
     Obj([colors |-> Obj([primary |-> Str("#ff0000")])]),
     Obj([colors |-> Obj([primary |-> Str("#111111"), secondary |-> Str("#222222"),
                          background |-> Str("#333333"), text |-> Str("#444444")]),
          font |-> Str("Vazir")])}

PlanOf(language, secs, style) ==
    Obj([meta     |-> Obj([title |-> Str("Bakery"), description |-> Str("Fresh bread"),
                           language |-> Str(language)]),
         assets   |-> Obj([images |-> Arr(<<>>)]),
         sections |-> Arr(secs),
         style    |-> style])

PlanLanguages == {"fa", "en"}

\* plans that have the SitePlan shape
ValidPlans ==
    {PlanOf(language, secs, style) :
        language \in PlanLanguages, secs \in SectionSeqs, style \in StyleSet}

SamplePlan == PlanOf("en", <<Sec("hero", "hero", <<>>)>>, Obj([colors |-> Obj(<<>>)]))

\* JSON values that do not have the SitePlan shape
MalformedPlans ==
    {Null,
     Str("hello"),
     Arr(<<>>),
     Obj(<<>>),
     Without(SamplePlan, "assets"),
     Without(SamplePlan, "style"),
     With(SamplePlan, "sections", Str("none")),
     With(SamplePlan, "sections", Arr(<<Obj([id |-> Str("g"), type |-> Str("gallery")])>>)),
     With(SamplePlan, "sections", Arr(<<Null>>)),
     With(SamplePlan, "meta", Obj([title |-> Str("Bakery")]))}

\* outcomes of openai.chat.completions.create: the call rejects, the completion
\* has no choice, its content is absent or empty, or its content is a text
AIReplies ==
    {[kind |-> kd, val |-> Undef] : kd \in {"reject", "nochoices", "nocontent", "empty", "garbage"}}
    \cup {[kind |-> "json", val |-> v] : v \in ValidPlans \cup MalformedPlans}

NoReply == [kind |-> "none", val |-> Undef]
NoBody  == [json |-> FALSE, val |-> Null]

---------------------------------------------------------------------------
(* AI client: generateSitePlan, src/lib/zip.ts lines 27-47 *)

Err(name, message) == [name |-> name, message |-> message, errors |-> <<>>]
ZodError(issues)   == [name |-> "ZodError", message |-> "<issues as JSON>", errors |-> issues]

TypeErrorMessage == "Cannot read properties of undefined"

\* generateSitePlan with the emptiness check outside its try block
generateSitePlanUnwrapped(reply) ==
    IF reply.kind = "json"
    THEN [ok |-> TRUE, plan |-> reply.val, err |-> Err("", "")]
    ELSE IF reply.kind \in {"nocontent", "empty"}
    THEN [ok |-> FALSE, plan |-> Undef, err |-> Err("Error", "Empty AI response")]
    ELSE [ok |-> FALSE, plan |-> Undef, err |-> Err("Error", "Failed to generate site plan")]

\* what generateSitePlan does with the outcome of its call: any failure inside
\* the try block is replaced by Error('Failed to generate site plan')
generateSitePlan(reply) ==
    IF reply.kind = "json"
    THEN [ok |-> TRUE, plan |-> reply.val, err |-> Err("", "")]
    ELSE [ok |-> FALSE, plan |-> Undef, err |-> Err("Error", "Failed to generate site plan")]

---------------------------------------------------------------------------
(* Generate handler: src/app/api/generate/route.ts *)

NoResponse == [status |-> 0, keys |-> {}, error |-> "", details |-> <<>>, plan |-> Undef, files |-> <<>>]

\* a success response that leaves the files out
OkResponsePlanOnly(plan, files) ==
    [status |-> 200, keys |-> {"plan"}, error |-> "", details |-> <<>>,
     plan |-> plan, files |-> <<>>]

\* return NextResponse.json({ plan, files })
OkResponse(plan, files) ==
    [status |-> 200, keys |-> {"plan", "files"}, error |-> "", details |-> <<>>,
     plan |-> plan, files |-> files]

\* a catch block that logs the error and answers 200 with nothing in it
CatchResponseSwallowed(err) ==
    [status |-> 200, keys |-> {}, error |-> "", details |-> <<>>, plan |-> Undef, files |-> <<>>]

\* a catch block that answers its fallback text whatever was raised
CatchResponseGeneric(err) ==
    IF err.name = "ZodError"
    THEN [status |-> 400, keys |-> {"error", "details"}, error |-> "Invalid request data",
          details |-> err.errors, plan |-> Undef, files |-> <<>>]
    ELSE [status |-> 500, keys |-> {"error"}, error |-> "Failed to generate site",
          details |-> <<>>, plan |-> Undef, files |-> <<>>]

\* the catch block of POST
CatchResponse(err) ==
    IF err.name = "ZodError"
    THEN [status |-> 400, keys |-> {"error", "details"}, error |-> "Invalid request data",
          details |-> err.errors, plan |-> Undef, files |-> <<>>]
    ELSE [status |-> 500, keys |-> {"error"},
          error |-> IF err.message # "" THEN err.message ELSE "Failed to generate site",
          details |-> <<>>, plan |-> Undef, files |-> <<>>]

---------------------------------------------------------------------------
(* Export: GeneratedFilesSchema (src/lib/validation.ts), zipFiles            *)
(* (src/lib/zip.ts lines 4-18) and the handler src/app/api/export/route.ts   *)

\* one element of files: z.object({ path: z.string(), content: z.string() })
ZFileEntry(v, path) ==
    IF v.k # "obj" THEN <<Issue(path, "invalid_type")>>
    ELSE ZString(Get(v, "path"), path \o <<"path">>)
         \o ZString(Get(v, "content"), path \o <<"content">>)

\* the issues GeneratedFilesSchema.parse(v) raises
GeneratedFilesIssues(v) ==
    IF v.k # "obj" THEN <<Issue(<<>>, "invalid_type")>>
    ELSE LET list == Get(v, "files")
         IN  IF list.k # "arr" THEN <<Issue(<<"files">>, "invalid_type")>>
             ELSE Concat([i \in 1..Len(list.a) |->
                            ZFileEntry(list.a[i], <<"files", IdxStr[i]>>)])

\* the value GeneratedFilesSchema.parse(v) returns for an accepted v
GeneratedFilesData(v) ==
    Obj([files |-> Arr([i \in 1..Len(Get(v, "files").a) |->
                          Strip(Get(v, "files").a[i], {"path", "content"})])])

GeneratedFilesParse(v) ==
    LET found == GeneratedFilesIssues(v)
    IN  IF found = <<>> THEN [ok |-> TRUE, data |-> GeneratedFilesData(v), issues |-> <<>>]
        ELSE [ok |-> FALSE, data |-> Undef, issues |-> found]

\* JSZip keeps its entries in an object keyed by name, in insertion order
ZipEntry(name, dir, content) == [name |-> name, dir |-> dir, content |-> content]

\* the folder part of the enumerated paths (text before the last '/')
ParentFolder(name) ==
    CASE name \in {"src/App.jsx", "src/main.jsx", "src/App.css"} -> "src"
      [] name \in {"public/index.html"} -> "public"
      [] name \in {"app/page.tsx", "app/layout.tsx", "app/globals.css"} -> "app"
      [] OTHER -> ""

\* this.files[name] = object: a second entry of the same name replaces the first
ZipPut(entries, entry) ==
    IF \E j \in 1..Len(entries) : entries[j].name = entry.name
    THEN [entries EXCEPT ![CHOOSE j \in 1..Len(entries) : entries[j].name = entry.name] = entry]
    ELSE Append(entries, entry)

\* folderAdd: the folder entry is created unless it exists
ZipFolderAdd(entries, name) ==
    IF \E j \in 1..Len(entries) : entries[j].name = name \o "/"
    THEN entries
    ELSE Append(entries, ZipEntry(name \o "/", TRUE, ""))

\* zip.file(name, content), createFolders being JSZip's default
ZipFileAdd(entries, name, content) ==
    ZipPut(IF ParentFolder(name) # "" THEN ZipFolderAdd(entries, ParentFolder(name)) ELSE entries,
           ZipEntry(name, FALSE, content))

RECURSIVE ZipAll(_, _)
\* files.forEach(file => zip.file(file.path, file.content))
ZipAll(entries, files) ==
    IF files = <<>> THEN entries
    ELSE ZipAll(ZipFileAdd(entries, Get(Head(files), "path").s, Get(Head(files), "content").s),
                Tail(files))

NoBuffer == [format |-> "none", entries |-> <<>>]

\* zipFiles: the archive buffer generateAsync produces for the list
zipFiles(files) == [format |-> "zip", entries |-> ZipAll(<<>>, files)]

\* reading the archive back: its entries, in archive order
Unzip(buffer) == buffer.entries

\* Date.now() values
Clock == {"1700000000000", "1700000000001"}

NoXResponse ==
    [status |-> 0, contentType |-> "", disposition |-> <<>>, buffer |-> NoBuffer,
     keys |-> {}, error |-> ""]

\* a success response naming the attachment website-<timestamp>.zip
ExportOkResponseWebsite(buffer, now) ==
    [status |-> 200, contentType |-> "application/zip",
     disposition |-> <<"attachment; filename=\"website-", now, ".zip\"">>,
     buffer |-> buffer, keys |-> {}, error |-> ""]

\* new NextResponse(buffer, { status: 200, headers })
ExportOkResponse(buffer, now) ==
    [status |-> 200, contentType |-> "application/zip",
     disposition |-> <<"attachment; filename=\"site-", now, ".zip\"">>,
     buffer |-> buffer, keys |-> {}, error |-> ""]

\* the catch block of the export handler
ExportCatchResponse(err) ==
    [status |-> 500, contentType |-> "application/json", disposition |-> <<>>,
     buffer |-> NoBuffer, keys |-> {"error"},
     error |-> IF err.message # "" THEN err.message ELSE "Failed to export files"]

FileVal(path, content) == Obj([path |-> Str(path), content |-> Str(content)])

ExportPaths    == {"a.txt", "src/App.jsx", ""}
ExportContents == {"hello", ""}

\* entries GeneratedFilesSchema accepts
ExportEntrySet == {FileVal(path, content) : path \in ExportPaths, content \in ExportContents}

ExportLists == UNION {[1..n -> ExportEntrySet] : n \in 0..MaxFiles}

ValidExportBodies ==
    {Obj([files |-> Arr(list)]) : list \in ExportLists}
    \cup {Obj([files |-> Arr(<<FileVal("a.txt", "hello")>>), extra |-> Str("ignored")])}

InvalidExportBodies ==
    {Obj([files |-> Arr(<<Obj([path |-> Str("a.txt"), content |-> Num("5")])>>)]),
     Obj([files |-> Arr(<<Obj([path |-> Str("a.txt")])>>)]),
     Obj([files |-> Arr(<<Obj([content |-> Str("hello")])>>)]),
     Obj([files |-> Arr(<<FileVal("a.txt", "hello"), Null>>)]),
     Obj([files |-> Arr(<<FileVal("a.txt", "hello"),
                          Obj([path |-> Num("1"), content |-> Null])>>)]),
     Obj([files |-> Str("a.txt")]),
     Obj(<<>>),
     Null}

RawExportBodies ==
    {[json |-> TRUE, val |-> v] : v \in ValidExportBodies \cup InvalidExportBodies}
    \cup {[json |-> FALSE, val |-> Undef]}

ArchiveErrorMessage == "Archive generation failed"

---------------------------------------------------------------------------
(* Browser side: Home (src/app/preview/page.tsx), PromptForm                *)
(* (src/unnamed/part_002), ModernPromptForm and the Preview page            *)

\* the texts a user types
TypedTexts == {"", "  ", "ab", "A bakery site", Intent2001}

\* String.prototype.trim of the enumerated texts
Trim(str) == IF str \in {"", "  "} THEN "" ELSE str

\* e.target.value.slice(0, 2000) of the enumerated texts
Slice2000(str) == IF str = Intent2001 THEN Intent2000 ELSE str

\* generatedData / window.__generatedData: null, the loading placeholder, a result
NoData == [isSet |-> FALSE, isLoading |-> FALSE, files |-> <<>>]

\* loadingData of handleQuickGenerate
LoadingData == [isSet |-> TRUE, isLoading |-> TRUE, files |-> <<>>]

\* { ...data, isLoading: false } for the body of a success response
ResultData(resp) == [isSet |-> TRUE, isLoading |-> FALSE, files |-> resp.files]

\* fetch rejected: no response at all
NetworkFailure == NoResponse

\* the handler's success response for the sample plan, per flavor
SampleOkResponse ==
    [fw \in Frameworks |-> OkResponse(SamplePlan, buildFilesFromPlan(SamplePlan, fw).files)]

\* the handler's response when the AI step fails
SampleFailedResponse ==
    CatchResponse(generateSitePlan([kind |-> "empty", val |-> Undef]).err)

\* what a fetch of /api/generate with this body can settle with
FetchOutcomes(sent) ==
    LET parsed == BuildRequestParse(sent)
    IN  {NetworkFailure}
        \cup (IF ~parsed.ok
              THEN {CatchResponse(ZodError(parsed.issues))}
              ELSE {SampleOkResponse[Get(parsed.data, "framework").s],
                    SampleFailedResponse})

\* the sections a user toggles
ToggleSections == {"hero", "features", "contact"}

\* toggleSection
Toggle(sections, section) ==
    IF \E i \in 1..Len(sections) : sections[i] = section
    THEN SelectSeq(sections, LAMBDA sec : sec # section)
    ELSE Append(sections, section)

\* no page mounted, the hand-off slot unset
UiInit ==
    [page |-> "none",
     prompt |-> "", isGenerating |-> FALSE, generatedData |-> NoData,
     intent |-> "", sections |-> DefaultSections, loading |-> FALSE,
     onResultCalled |-> FALSE,
     sent |-> <<>>, lastSettled |-> 0,
     windowData |-> NoData, previewData |-> NoData]

\* Home without the check of generatedData: the prompt form is always on screen
FormAlwaysMounted(u) == u.page = "Home"

\* Home renders the prompt form only while generatedData is null
FormMounted(u) == u.page = "Home" /\ ~u.generatedData.isSet

\* handleResult
handleResult(u, data) == [u EXCEPT !.generatedData = data, !.windowData = data]

\* handleQuickGenerate, to the await of fetch
handleQuickGenerate(u) ==
    IF Trim(u.prompt) = "" THEN u
    ELSE [handleResult([u EXCEPT !.isGenerating = TRUE], LoadingData)
             EXCEPT !.sent = Append(@, HomeBody(u.prompt))]

\* handleQuickGenerate, from the settling of fetch to the end of finally
handleQuickGenerateSettled(u, resp) ==
    [(IF resp.status = 200
      THEN handleResult(u, ResultData(resp))
      ELSE [u EXCEPT !.generatedData = NoData])
        EXCEPT !.isGenerating = FALSE, !.sent = Tail(@), !.lastSettled = resp.status]

\* the body the mounted form sends
FormBody(u) ==
    IF u.page = "PromptForm"
    THEN PromptFormBody(u.intent, "next", "#7c3aed", u.sections, "en")
    ELSE ModernPromptFormBody(u.intent, "next", "#000000", u.sections, "en")

\* handleSubmit of PromptForm and ModernPromptForm, to the await of fetch
handleSubmit(u) ==
    IF Trim(u.intent) = "" THEN u
    ELSE [u EXCEPT !.loading = TRUE, !.onResultCalled = FALSE,
                   !.sent = Append(@, FormBody(u))]

\* a handleSubmit that calls onResult before it looks at response.ok
handleSubmitSettledUnchecked(u, resp) ==
    [u EXCEPT !.onResultCalled = resp.status # 0,
              !.loading = FALSE, !.sent = Tail(@), !.lastSettled = resp.status]

\* handleSubmit, from the settling of fetch to the end of finally
handleSubmitSettled(u, resp) ==
    [u EXCEPT !.onResultCalled = resp.status = 200,
              !.loading = FALSE, !.sent = Tail(@), !.lastSettled = resp.status]

\* a request slot no handler invocation has started on
IdleRequest ==
    [kind |-> "none", pc |-> "idle", body |-> NoBody, validatedData |-> Undef,
     reply |-> NoReply, response |-> NoResponse]

Init ==
    /\ conc = [r \in 1..NumRequests |-> IdleRequest]
    /\ ui = UiInit
    /\ xpc = "idle"
    /\ xBody = NoBody
    /\ zipOutcome = "none"
    /\ xResponse = NoXResponse
    /\ pc = "idle"
    /\ body = NoBody
    /\ validatedData = Undef
    /\ aiCalls = 0
    /\ aiReply = NoReply
    /\ genCalled = FALSE
    /\ genPlan = Undef
    /\ genResult = [threw |-> FALSE, files |-> <<>>]
    /\ response = NoResponse

\* POST up to its await of generateSitePlan: req.json(), BuildRequestSchema.parse,
\* then generateSitePlan issues its call to the text-generation service
POST(raw) ==
    /\ pc = "idle"
    /\ xpc = "idle"
    /\ UNCHANGED <<xVars, conc, ui>>
    /\ body' = raw
    /\ UNCHANGED <<aiReply, genCalled, genPlan, genResult>>
    /\ IF ~raw.json
       THEN /\ response' = CatchResponse(Err("SyntaxError", "Unexpected token in JSON"))
            /\ pc' = "responded"
            /\ UNCHANGED <<validatedData, aiCalls>>
       ELSE LET parsed == BuildRequestParse(raw.val)
            IN  IF ~parsed.ok
                THEN /\ response' = CatchResponse(ZodError(parsed.issues))
                     /\ pc' = "responded"
                     /\ UNCHANGED <<validatedData, aiCalls>>
                ELSE /\ validatedData' = parsed.data
                     /\ aiCalls' = aiCalls + 1
                     /\ pc' = "awaitAI"
                     /\ UNCHANGED response

\* POSTResume over a generateSitePlan that calls the service again after a failure
POSTResumeRetry(reply) ==
    /\ pc = "awaitAI"
    /\ aiReply' = reply
    /\ UNCHANGED <<xVars, conc, ui>>
    /\ UNCHANGED <<body, validatedData>>
    /\ LET got == generateSitePlan(reply)
       IN  IF ~got.ok /\ aiCalls < 2
           THEN /\ aiCalls' = aiCalls + 1
                /\ pc' = "awaitAI"
                /\ UNCHANGED <<genCalled, genPlan, genResult, response>>
           ELSE IF ~got.ok
           THEN /\ response' = CatchResponse(got.err)
                /\ pc' = "responded"
                /\ UNCHANGED <<aiCalls, genCalled, genPlan, genResult>>
           ELSE LET built == buildFilesFromPlan(got.plan, Get(validatedData, "framework").s)
                IN  /\ genCalled' = TRUE
                    /\ genPlan' = got.plan
                    /\ genResult' = built
                    /\ pc' = "responded"
                    /\ UNCHANGED aiCalls
                    /\ response' = IF built.threw
                                   THEN CatchResponse(Err("TypeError", TypeErrorMessage))
                                   ELSE OkResponse(got.plan, built.files)

\* POST from the point the AI call settles: generateSitePlan returns or throws,
\* buildFilesFromPlan runs, the response is sent
POSTResume(reply) ==
    /\ pc = "awaitAI"
    /\ aiReply' = reply
    /\ UNCHANGED <<xVars, conc, ui>>
    /\ pc' = "responded"
    /\ UNCHANGED <<body, validatedData, aiCalls>>
    /\ LET got == generateSitePlan(reply)
       IN  IF ~got.ok
           THEN /\ response' = CatchResponse(got.err)
                /\ UNCHANGED <<genCalled, genPlan, genResult>>
           ELSE LET built == buildFilesFromPlan(got.plan, Get(validatedData, "framework").s)
                IN  /\ genCalled' = TRUE
                    /\ genPlan' = got.plan
                    /\ genResult' = built
                    /\ response' = IF built.threw
                                   THEN CatchResponse(Err("TypeError", TypeErrorMessage))
                                   ELSE OkResponse(got.plan, built.files)

\* the request is over; the handler keeps nothing of it
Finish ==
    /\ pc = "responded"
    /\ UNCHANGED <<xVars, conc, ui>>
    /\ pc' = "idle"
    /\ body' = NoBody
    /\ validatedData' = Undef
    /\ aiCalls' = 0
    /\ aiReply' = NoReply
    /\ genCalled' = FALSE
    /\ genPlan' = Undef
    /\ genResult' = [threw |-> FALSE, files |-> <<>>]
    /\ response' = NoResponse

\* the export handler: req.json(), GeneratedFilesSchema.parse, zipFiles, response;
\* now is Date.now(), zipOk whether generateAsync resolves
ExportPOST(raw, now, zipOk) ==
    /\ xpc = "idle"
    /\ pc = "idle"
    /\ xpc' = "responded"
    /\ xBody' = raw
    /\ UNCHANGED <<genVars, conc, ui>>
    /\ IF ~raw.json
       THEN /\ xResponse' = ExportCatchResponse(Err("SyntaxError", "Unexpected token in JSON"))
            /\ zipOutcome' = "none"
       ELSE LET parsed == GeneratedFilesParse(raw.val)
            IN  IF ~parsed.ok
                THEN /\ xResponse' = ExportCatchResponse(ZodError(parsed.issues))
                     /\ zipOutcome' = "none"
                ELSE /\ zipOutcome' = IF zipOk THEN "resolved" ELSE "rejected"
                     /\ xResponse' = IF zipOk
                                     THEN ExportOkResponse(zipFiles(Get(parsed.data, "files").a), now)
                                     ELSE ExportCatchResponse(Err("Error", ArchiveErrorMessage))

\* the export request is over
ExportFinish ==
    /\ xpc = "responded"
    /\ xpc' = "idle"
    /\ xBody' = NoBody
    /\ zipOutcome' = "none"
    /\ xResponse' = NoXResponse
    /\ UNCHANGED <<genVars, conc, ui>>

Next ==
    \/ \E raw \in RawBodies : POST(raw)
    \/ \E reply \in AIReplies : POSTResume(reply)
    \/ Finish
    \/ \E raw \in RawExportBodies, now \in Clock, zipOk \in BOOLEAN : ExportPOST(raw, now, zipOk)
    \/ ExportFinish

Spec == Init /\ [][Next]_vars

\* outcomes of the AI call: every failure, two plans, every malformed plan
LiveReplies ==
    {reply \in AIReplies : reply.kind # "json"}
    \cup {[kind |-> "json", val |-> v] :
            v \in {SamplePlan,
                   PlanOf("en", <<Sec("features", "features", [items |-> Str("soon")])>>,
                          Obj([colors |-> Obj(<<>>)]))}
                  \cup MalformedPlans}

NextLive ==
    \/ \E raw \in RawBodies : POST(raw)
    \/ \E reply \in LiveReplies : POSTResume(reply)
    \/ Finish
    \/ \E raw \in RawExportBodies, now \in Clock, zipOk \in BOOLEAN : ExportPOST(raw, now, zipOk)
    \/ ExportFinish

\* the outbound AI call of a request returns or fails
SpecLive ==
    Init /\ [][NextLive]_vars /\ WF_vars(\E reply \in LiveReplies : POSTResume(reply))

---------------------------------------------------------------------------
(* Concurrent requests: each invocation of a handler has its own locals    *)
(* (body, validatedData, plan, files, buffer); the handlers interleave at  *)
(* their awaits                                                            *)

ConcPlans ==
    {PlanOf("en", <<Sec("hero", "hero", <<>>)>>, Obj([colors |-> Obj(<<>>)])),
     PlanOf("fa", <<Sec("contact", "contact", [email |-> Str("a@b.c")])>>,
            Obj([colors |-> Obj([primary |-> Str("#ff0000")])]))}

ConcReplies ==
    {[kind |-> "json", val |-> plan] : plan \in ConcPlans}
    \cup {[kind |-> "empty", val |-> Undef]}

ConcBodies ==
    {[json |-> TRUE, val |-> BaseReq(fw)] : fw \in {"vanilla", "next"}}
    \cup {[json |-> TRUE, val |-> With(BaseReq("react"), "sections", Arr(<<>>))],
          [json |-> FALSE, val |-> Undef]}

ConcExportBodies ==
    {[json |-> TRUE, val |-> Obj([files |-> Arr(<<FileVal("a.txt", "hello")>>)])],
     [json |-> TRUE, val |-> Obj([files |-> Arr(<<FileVal("src/App.jsx", "")>>)])],
     [json |-> TRUE, val |-> Obj([files |-> Str("a.txt")])]}

\* a framework kept in one module-level variable, written by the first request
FrameworkOfShared(c, r) ==
    LET started == {q \in DOMAIN c : c[q].validatedData # Undef /\ c[q].kind = "generate"}
    IN  Get(c[CHOOSE q \in started : \A o \in started : q <= o].validatedData, "framework").s

\* validatedData.framework of the request's own invocation
FrameworkOf(c, r) == Get(c[r].validatedData, "framework").s

\* generate handler of request r, to the await of generateSitePlan
ConcPOST(r, raw) ==
    /\ conc[r].pc = "idle"
    /\ UNCHANGED <<genVars, xVars, ui>>
    /\ LET parsed == BuildRequestParse(raw.val)
       IN  conc' = [conc EXCEPT ![r] =
                IF ~raw.json
                THEN [kind |-> "generate", pc |-> "responded", body |-> raw,
                      validatedData |-> Undef, reply |-> NoReply,
                      response |-> CatchResponse(Err("SyntaxError", "Unexpected token in JSON"))]
                ELSE IF ~parsed.ok
                THEN [kind |-> "generate", pc |-> "responded", body |-> raw,
                      validatedData |-> Undef, reply |-> NoReply,
                      response |-> CatchResponse(ZodError(parsed.issues))]
                ELSE [kind |-> "generate", pc |-> "awaitAI", body |-> raw,
                      validatedData |-> parsed.data, reply |-> NoReply,
                      response |-> NoResponse]]

\* generate handler of request r, from the completion of its own AI call
ConcPOSTResume(r, reply) ==
    /\ conc[r].pc = "awaitAI"
    /\ UNCHANGED <<genVars, xVars, ui>>
    /\ LET got   == generateSitePlan(reply)
           built == buildFilesFromPlan(got.plan, FrameworkOf(conc, r))
       IN  conc' = [conc EXCEPT ![r].pc = "responded",
                                ![r].reply = reply,
                                ![r].response =
                                    IF ~got.ok THEN CatchResponse(got.err)
                                    ELSE IF built.threw
                                    THEN CatchResponse(Err("TypeError", TypeErrorMessage))
                                    ELSE OkResponse(got.plan, built.files)]

\* export handler of request r, to the await of zipFiles
ConcExportPOST(r, raw) ==
    /\ conc[r].pc = "idle"
    /\ UNCHANGED <<genVars, xVars, ui>>
    /\ LET parsed == GeneratedFilesParse(raw.val)
       IN  conc' = [conc EXCEPT ![r] =
                IF ~parsed.ok
                THEN [kind |-> "export", pc |-> "responded", body |-> raw,
                      validatedData |-> Undef, reply |-> NoReply,
                      response |-> ExportCatchResponse(ZodError(parsed.issues))]
                ELSE [kind |-> "export", pc |-> "awaitZip", body |-> raw,
                      validatedData |-> parsed.data, reply |-> NoReply,
                      response |-> NoXResponse]]

\* export handler of request r, from the completion of its own zipFiles call
ConcExportResume(r, now, zipOk) ==
    /\ conc[r].pc = "awaitZip"
    /\ UNCHANGED <<genVars, xVars, ui>>
    /\ conc' = [conc EXCEPT ![r].pc = "responded",
                            ![r].response =
                                IF zipOk
                                THEN ExportOkResponse(
                                         zipFiles(Get(conc[r].validatedData, "files").a), now)
                                ELSE ExportCatchResponse(Err("Error", ArchiveErrorMessage))]

\* the response of request r has been delivered; its slot serves a new request
ConcFinish(r) ==
    /\ conc[r].pc = "responded"
    /\ UNCHANGED <<genVars, xVars, ui>>
    /\ conc' = [conc EXCEPT ![r] = IdleRequest]

NextConc ==
    \/ \E r \in 1..NumRequests, raw \in ConcBodies : ConcPOST(r, raw)
    \/ \E r \in 1..NumRequests, reply \in ConcReplies : ConcPOSTResume(r, reply)
    \/ \E r \in 1..NumRequests, raw \in ConcExportBodies : ConcExportPOST(r, raw)
    \/ \E r \in 1..NumRequests, zipOk \in BOOLEAN :
          ConcExportResume(r, "1700000000000", zipOk)
    \/ \E r \in 1..NumRequests : ConcFinish(r)

SpecConc == Init /\ [][NextConc]_vars

---------------------------------------------------------------------------
(* Browser side: the pages' events. One page is mounted at a time; the      *)
(* committed render decides which controls exist and which are disabled     *)

Pages == {"Home", "PromptForm", "ModernPromptForm", "Preview"}

\* navigation to a page; Preview's effect copies window.__generatedData
Mount(page) ==
    /\ ui.page = "none"
    /\ ui' = [UiInit EXCEPT !.page = page,
                            !.windowData = ui.windowData,
                            !.previewData = IF page = "Preview" /\ ui.windowData.isSet
                                            THEN ui.windowData ELSE NoData]
    /\ UNCHANGED <<genVars, xVars, conc>>

\* navigation away from the page (a fetch in flight is dropped with the
\* component), window.__generatedData staying
Unmount ==
    /\ ui.page # "none"
    /\ ui' = [UiInit EXCEPT !.windowData = ui.windowData]
    /\ UNCHANGED <<genVars, xVars, conc>>

\* Home: onChange of the textarea
HomeType(text) ==
    /\ FormMounted(ui)
    /\ ui' = [ui EXCEPT !.prompt = Slice2000(text)]
    /\ UNCHANGED <<genVars, xVars, conc>>

\* Home: onClick of the button, disabled={!prompt.trim() || isGenerating}
HomeClick ==
    /\ FormMounted(ui)
    /\ Trim(ui.prompt) # ""
    /\ ~ui.isGenerating
    /\ Len(ui.sent) < 2
    /\ ui' = handleQuickGenerate(ui)
    /\ UNCHANGED <<genVars, xVars, conc>>

\* Home: onKeyDown of the textarea with Enter
HomeEnter ==
    /\ FormMounted(ui)
    /\ Len(ui.sent) < 2
    /\ ui' = handleQuickGenerate(ui)
    /\ UNCHANGED <<genVars, xVars, conc>>

\* Home: the oldest fetch in flight settles and handleQuickGenerate runs on
HomeSettle ==
    /\ ui.page = "Home"
    /\ ui.sent # <<>>
    /\ \E resp \in FetchOutcomes(Head(ui.sent)) : ui' = handleQuickGenerateSettled(ui, resp)
    /\ UNCHANGED <<genVars, xVars, conc>>

\* the forms: onChange of the intent textarea, disabled={loading}
FormType(text) ==
    /\ ui.page \in {"PromptForm", "ModernPromptForm"}
    /\ ~ui.loading
    /\ ui' = [ui EXCEPT !.intent = text]
    /\ UNCHANGED <<genVars, xVars, conc>>

\* the forms: a section checkbox, disabled={loading}
FormToggle(section) ==
    /\ ui.page \in {"PromptForm", "ModernPromptForm"}
    /\ ~ui.loading
    /\ ui' = [ui EXCEPT !.sections = Toggle(@, section)]
    /\ UNCHANGED <<genVars, xVars, conc>>

\* the forms: onSubmit through the submit button,
\* disabled={loading || !sections.length} (ModernPromptForm: || !intent.trim())
FormSubmit ==
    /\ ui.page \in {"PromptForm", "ModernPromptForm"}
    /\ ~ui.loading
    /\ ui.sections # <<>>
    /\ ui.page = "ModernPromptForm" => Trim(ui.intent) # ""
    /\ Len(ui.sent) < 2
    /\ ui' = handleSubmit(ui)
    /\ UNCHANGED <<genVars, xVars, conc>>

\* the forms: the fetch in flight settles and handleSubmit runs on
FormSettle ==
    /\ ui.page \in {"PromptForm", "ModernPromptForm"}
    /\ ui.sent # <<>>
    /\ \E resp \in FetchOutcomes(Head(ui.sent)) : ui' = handleSubmitSettled(ui, resp)
    /\ UNCHANGED <<genVars, xVars, conc>>

NextClient ==
    \/ \E page \in Pages : Mount(page)
    \/ Unmount
    \/ \E text \in TypedTexts : HomeType(text)
    \/ HomeClick
    \/ HomeEnter
    \/ HomeSettle
    \/ \E text \in TypedTexts : FormType(text)
    \/ \E section \in ToggleSections : FormToggle(section)
    \/ FormSubmit
    \/ FormSettle

\* a fetch settles: it resolves with a response or rejects
SpecClient ==
    Init /\ [][NextClient]_vars /\ WF_vars(HomeSettle) /\ WF_vars(FormSettle)

---------------------------------------------------------------------------
(* Properties of the generate handler *)

\* the BuildRequest constraints of the data model, stated on a JSON value
OptionalStr(v) == v.k \in {"undef", "str"}

SatisfiesBuildRequest(v) ==
    /\ v.k = "obj"
    /\ Get(v, "intent").k = "str"
    /\ StrLen(Get(v, "intent").s) >= 3
    /\ StrLen(Get(v, "intent").s) <= 2000
    /\ Get(v, "framework").k = "str" /\ Get(v, "framework").s \in {"vanilla", "react", "next"}
    /\ Get(v, "theme").k = "obj"
    /\ Get(Get(v, "theme"), "primary").k = "str"
    /\ OptionalStr(Get(Get(v, "theme"), "secondary"))
    /\ OptionalStr(Get(Get(v, "theme"), "font"))
    /\ Get(Get(v, "theme"), "dark").k \in {"undef", "bool"}
    /\ Get(v, "sections").k = "arr"
    /\ Len(Get(v, "sections").a) >= 1
    /\ \A i \in 1..Len(Get(v, "sections").a) :
          /\ Get(v, "sections").a[i].k = "str"
          /\ Get(v, "sections").a[i].s \in
                {"hero", "features", "menu", "gallery", "pricing", "contact", "faq"}
    /\ Get(v, "language").k = "str" /\ Get(v, "language").s \in {"fa", "en"}
    /\ \/ Get(v, "brand").k = "undef"
       \/ /\ Get(v, "brand").k = "obj"
          /\ OptionalStr(Get(Get(v, "brand"), "name"))
          /\ \/ Get(Get(v, "brand"), "tone").k = "undef"
             \/ /\ Get(Get(v, "brand"), "tone").k = "str"
                /\ Get(Get(v, "brand"), "tone").s \in {"formal", "casual", "playful"}

Responded == pc = "responded"

\* C1: a JSON request body that violates a BuildRequest constraint is answered
\* 400 with an error and a non-empty details list; no AI call was made, the
\* code generator did not run, and the response has neither plan nor files.
C1_InvalidRequestRejected ==
    (Responded /\ body.json /\ ~SatisfiesBuildRequest(body.val)) =>
        /\ response.status = 400
        /\ response.keys = {"error", "details"}
        /\ response.error # ""
        /\ response.details # <<>>
        /\ aiCalls = 0
        /\ ~genCalled
        /\ response.plan = Undef
        /\ response.files = <<>>

C1_Witness ==
    /\ Responded
    /\ body.json
    /\ Get(body.val, "sections") = Arr(<<>>)
    /\ response.status = 400

\* C2: every response of the generate handler either is a 200 carrying both
\* plan and files and no error, or is an error status carrying an error and
\* neither plan nor files.
C2_NoPartialResponse ==
    Responded =>
        \/ /\ response.status = 200
           /\ response.keys = {"plan", "files"}
           /\ response.plan = genPlan
           /\ response.files = genResult.files
           /\ response.files # <<>>
        \/ /\ response.status \in {400, 500}
           /\ "error" \in response.keys
           /\ response.error # ""
           /\ "plan" \notin response.keys
           /\ "files" \notin response.keys
           /\ response.plan = Undef
           /\ response.files = <<>>

C2_Witness ==
    /\ Responded
    /\ genCalled
    /\ genResult.threw
    /\ response.status = 500
    /\ response.keys = {"error"}

\* C3: the plan handed to buildFilesFromPlan has the SitePlan shape.
C3_PlanValidatedBeforeCodegen ==
    genCalled => SitePlanValid(genPlan)

\* C4: a request that passes validation causes exactly one call to the
\* text-generation service, whatever the outcome of that call; no request
\* causes a second call.
C4_SingleAICall ==
    /\ aiCalls <= 1
    /\ (pc = "awaitAI") => aiCalls = 1
    /\ (Responded /\ body.json /\ SatisfiesBuildRequest(body.val)) => aiCalls = 1

C4_Witness ==
    /\ Responded
    /\ aiReply.kind \in {"reject", "empty", "garbage"}
    /\ aiCalls = 1

\* C5: when the AI service returns an empty string the handler responds 500
\* with the generic generation-failure message and no files.
C5_EmptyReplyIs500 ==
    (Responded /\ aiReply.kind = "empty") =>
        /\ response.status = 500
        /\ response.error = "Failed to generate site plan"
        /\ "files" \notin response.keys
        /\ response.files = <<>>
        /\ ~genCalled

C5_Witness ==
    /\ Responded
    /\ aiReply.kind = "empty"
    /\ response.status = 500

---------------------------------------------------------------------------
(* Properties of the code generator, on the plans the handler hands to it *)

ReqFramework == Get(validatedData, "framework").s

Paths(files) == [i \in 1..Len(files) |-> files[i].path]

ContentAt(files, path) ==
    LET at == CHOOSE i \in 1..Len(files) : files[i].path = path
    IN  files[at].content

\* C6: buildFilesFromPlan never throws for a plan SitePlanSchema accepts.
C6_CodegenNeverThrows ==
    (genCalled /\ SitePlanValid(genPlan)) => ~genResult.threw

\* the fixed path list of each flavor
FlavorPaths(fw) ==
    CASE fw = "vanilla" -> <<"index.html", "styles.css", "main.js">>
      [] fw = "react"   -> <<"package.json", "src/App.jsx", "src/main.jsx",
                             "public/index.html", "src/App.css">>
      [] fw = "next"    -> <<"package.json", "app/page.tsx", "app/layout.tsx",
                             "app/globals.css", "tailwind.config.ts">>

\* C7: for every SitePlan buildFilesFromPlan returns exactly the fixed ordered
\* path list of the chosen flavor.
C7_FixedPathList ==
    (genCalled /\ SitePlanValid(genPlan)) =>
        /\ ~genResult.threw
        /\ Paths(genResult.files) = FlavorPaths(ReqFramework)

\* the file that holds the markup of the sections, per flavor
MarkupPath(fw) ==
    CASE fw = "vanilla" -> "index.html"
      [] fw = "react"   -> "src/App.jsx"
      [] fw = "next"    -> "app/page.tsx"

KnownTypes == {"hero", "features", "contact"}

\* the content holds the serialized props between the chunks of a generic fragment
HasFallback(content, props) ==
    LET ser == JsonStringify(props, TRUE)
        n   == Len(ser)
    IN  \E j \in 2..(Len(content) - n) :
            /\ SubSeq(content, j, j + n - 1) = ser
            /\ content[j - 1] \in {VanillaPreOpen, NextPreOpen}
            /\ content[j + n] \in {VanillaPreClose, NextPreClose}

\* C8: in every flavor, each section whose type is not hero, features or
\* contact appears in the generated markup as the generic fragment holding its
\* serialized props, and a plan made of such sections does not make the
\* generator throw.
C8_UnknownTypeFallback ==
    (genCalled /\ SitePlanValid(genPlan)) =>
        LET secs == Get(genPlan, "sections").a
        IN  /\ (\A i \in 1..Len(secs) : Get(secs[i], "type").s \notin KnownTypes)
                   => ~genResult.threw
            /\ ~genResult.threw =>
                 \A i \in 1..Len(secs) :
                    Get(secs[i], "type").s \notin KnownTypes =>
                        HasFallback(ContentAt(genResult.files, MarkupPath(ReqFramework)),
                                    Get(secs[i], "props"))

\* the root document of each flavor
RootDocPath(fw) ==
    CASE fw = "vanilla" -> "index.html"
      [] fw = "react"   -> "public/index.html"
      [] fw = "next"    -> "app/layout.tsx"

\* the <html> element of the document carries dir="rtl"
SetsRtl(content) ==
    \E i \in 4..Len(content) :
        /\ content[i] = DirRtl
        /\ content[i - 1] = AttrGap
        /\ content[i - 3] \in {VanillaHtmlOpen, LayoutHtmlOpen, ReactHtmlOpen}

\* C9: in every flavor the generated root document sets right-to-left
\* direction exactly when plan.meta.language is 'fa'.
C9_RtlIffPersian ==
    (genCalled /\ SitePlanValid(genPlan) /\ ~genResult.threw) =>
        (SetsRtl(ContentAt(genResult.files, RootDocPath(ReqFramework)))
            <=> Get(Get(genPlan, "meta"), "language").s = "fa")

---------------------------------------------------------------------------
(* Export claims                                                           *)

\* the export request has been answered
XResponded == xpc = "responded"

\* the list the export handler hands to zipFiles
XFiles == Get(GeneratedFilesParse(xBody.val).data, "files").a

\* the file (non-folder) entries read back from an archive
FileEntries(buffer) == SelectSeq(Unzip(buffer), LAMBDA entry : ~entry.dir)

\* C11: archiving a list of N entries (paths not required to be distinct) and
\* reading the archive back yields exactly N entries whose paths and contents
\* are those of the input, entry by entry.
C11_ArchiveRoundTrip ==
    (XResponded /\ xResponse.status = 200) =>
        LET got == FileEntries(xResponse.buffer)
        IN  /\ Len(got) = Len(XFiles)
            /\ \A i \in 1..Len(got) :
                  /\ got[i].name = Get(XFiles[i], "path").s
                  /\ got[i].content = Get(XFiles[i], "content").s

\* some entry of the list has an empty path or a content that is not a string
HasBadEntry(v) ==
    /\ v.k = "obj"
    /\ Get(v, "files").k = "arr"
    /\ \E i \in 1..Len(Get(v, "files").a) :
          LET entry == Get(v, "files").a[i]
          IN  /\ entry.k = "obj"
              /\ \/ Get(entry, "path") = Str("")
                 \/ Get(entry, "content").k # "str"

\* C14: a files list with an entry whose path is empty or whose content is not
\* a string is rejected by export validation, and no archive is built.
C14_ExportRejectsBadEntries ==
    (XResponded /\ xBody.json /\ HasBadEntry(xBody.val)) =>
        /\ xResponse.status = 500
        /\ zipOutcome = "none"
        /\ xResponse.buffer = NoBuffer

\* the message of the error the export handler's try block raised
XRaisedMessage ==
    IF ~xBody.json THEN "Unexpected token in JSON"
    ELSE IF ~GeneratedFilesParse(xBody.val).ok
    THEN ZodError(GeneratedFilesParse(xBody.val).issues).message
    ELSE ArchiveErrorMessage

\* validation and archiving both succeeded
XSucceeded ==
    /\ xBody.json
    /\ GeneratedFilesParse(xBody.val).ok
    /\ zipOutcome = "resolved"

\* C15: the export handler answers 200 application/zip with the attachment
\* file name site-<timestamp>.zip exactly when validation and archiving
\* succeeded; on any failure it answers 500 with a JSON body {error} carrying
\* the raised error's message, and no archive bytes.
C15_ExportContract ==
    XResponded =>
        IF XSucceeded
        THEN /\ xResponse.status = 200
             /\ xResponse.contentType = "application/zip"
             /\ \E now \in Clock :
                   xResponse.disposition = <<"attachment; filename=\"site-", now, ".zip\"">>
             /\ xResponse.buffer = zipFiles(XFiles)
             /\ xResponse.keys = {}
        ELSE /\ xResponse.status = 500
             /\ xResponse.contentType = "application/json"
             /\ xResponse.keys = {"error"}
             /\ xResponse.error = XRaisedMessage
             /\ xResponse.buffer = NoBuffer
             /\ xResponse.disposition = <<>>

\* an archive of two files was served
C15_Witness ==
    /\ XResponded
    /\ xResponse.status = 200
    /\ Len(FileEntries(xResponse.buffer)) = 2

---------------------------------------------------------------------------
(* Request validation claims                                               *)

\* C12 as stated: the validated value is structurally identical to the input.
C12_ValidatedIdentical ==
    validatedData # Undef => validatedData = body.val

\* object a has exactly the keys of b among keys, each with b's value
SameOn(a, b, keys) ==
    /\ a.k = "obj"
    /\ DOMAIN a.o = (DOMAIN b.o) \cap keys
    /\ \A key \in DOMAIN a.o : a.o[key] = b.o[key]

\* C12 (amended): for an accepted input the validated value has exactly the
\* input's keys that the schema declares (top level, theme, brand), each with
\* the input's value: nothing is coerced or added, sections keep their order
\* and duplicates, and only keys the schema does not declare are dropped.
C12_ValidatedKeepsDeclaredFields ==
    validatedData # Undef =>
        /\ DOMAIN validatedData.o
             = (DOMAIN body.val.o)
               \cap {"intent", "framework", "theme", "sections", "language", "brand"}
        /\ \A key \in {"intent", "framework", "sections", "language"} :
              Get(validatedData, key) = Get(body.val, key)
        /\ SameOn(Get(validatedData, "theme"), Get(body.val, "theme"),
                  {"primary", "secondary", "font", "dark"})
        /\ "brand" \in DOMAIN body.val.o =>
              SameOn(Get(validatedData, "brand"), Get(body.val, "brand"), {"name", "tone"})

\* an accepted input with an undeclared key and a repeated section
C12_Witness ==
    /\ validatedData # Undef
    /\ "extra" \in DOMAIN body.val.o
    /\ Get(validatedData, "sections") = Arr(<<Str("hero"), Str("faq"), Str("hero")>>)

\* C13: an input whose sections list is empty and whose other fields are
\* valid is rejected with exactly one field-level error, naming sections.
C13_EmptySectionsOneError ==
    (/\ Responded
     /\ body.json
     /\ Get(body.val, "sections") = Arr(<<>>)
     /\ SatisfiesBuildRequest(With(body.val, "sections", Arr(<<Str("hero")>>))))
    => /\ response.status = 400
       /\ Len(response.details) = 1
       /\ response.details[1].path = <<"sections">>

\* the empty-sections request was answered
C13_Witness ==
    /\ Responded
    /\ body.json
    /\ body.val = With(BaseReq("react"), "sections", Arr(<<>>))
    /\ response.status = 400

---------------------------------------------------------------------------
(* Clients of the generate endpoint: what each shows for an error response *)

\* the message Zod's default error map gives an issue
IssueMessage(issue) ==
    CASE issue.code = "too_small" /\ issue.path = <<"sections">>
            -> "Array must contain at least 1 element(s)"
      [] issue.code = "too_small" -> "String must contain at least 3 character(s)"
      [] issue.code = "too_big" -> "String must contain at most 2000 character(s)"
      [] issue.code = "invalid_enum_value" -> "Invalid enum value"
      [] OTHER -> "Required | Expected <type>, received <type>"

\* Home.handleQuickGenerate: the text it alerts for a response that is not ok
HomeErrorMessage(resp) ==
    IF "details" \in resp.keys
    THEN <<"Validation error: ">>
         \o Join([i \in 1..Len(resp.details) |-> <<IssueMessage(resp.details[i])>>], <<", ">>)
    ELSE <<IF resp.error # "" THEN resp.error ELSE "Failed to generate site">>

\* PromptForm.handleSubmit: the text it alerts for a response that is not ok
PromptFormErrorMessage(resp) ==
    <<IF resp.error # "" THEN resp.error ELSE "Failed to generate site">>

\* ModernPromptForm.handleSubmit: the text it alerts for a response that is not ok
ModernPromptFormErrorMessage(resp) ==
    <<IF resp.error # "" THEN resp.error ELSE "Failed to generate site">>

\* the top-level fields of v that violate their BuildRequest constraint
ViolatedFields(v) ==
    {field \in {"intent", "framework", "theme", "sections", "language", "brand"} :
        ~SatisfiesBuildRequest(With(FullReq, field, Get(v, field)))}

\* the text shown to the user contains the message
Mentions(shown, message) == \E j \in 1..Len(shown) : shown[j] = message

\* C17: when a build request violates several fields at once, the 400 details
\* name every violated field (and only violated fields), and each client shows
\* the user the message of every entry of details.
C17_AllViolationsSurfaced ==
    (/\ Responded
     /\ body.json
     /\ body.val.k = "obj"
     /\ Cardinality(ViolatedFields(body.val)) >= 2)
    => /\ response.status = 400
       /\ \A field \in ViolatedFields(body.val) :
             \E i \in 1..Len(response.details) : response.details[i].path[1] = field
       /\ \A i \in 1..Len(response.details) :
             /\ response.details[i].path[1] \in ViolatedFields(body.val)
             /\ Mentions(HomeErrorMessage(response), IssueMessage(response.details[i]))
             /\ Mentions(PromptFormErrorMessage(response), IssueMessage(response.details[i]))
             /\ Mentions(ModernPromptFormErrorMessage(response),
                         IssueMessage(response.details[i]))

---------------------------------------------------------------------------
(* Code generation claims: styling and section fragments                   *)

\* the styling output of each flavor
StylePath(fw) ==
    CASE fw = "vanilla" -> "styles.css"
      [] fw = "react"   -> "src/App.css"
      [] fw = "next"    -> "tailwind.config.ts"

ColourKeys == {"primary", "secondary", "background", "text"}

\* the fallback literal renderCss writes for an absent colour key
FallbackColour(key) ==
    CASE key = "primary"    -> "#007bff"
      [] key = "secondary"  -> "#f8f9fa"
      [] key = "background" -> "#fff"
      [] key = "text"       -> "#333"

\* the content holds the colour, bare (stylesheet) or as a JSON string (config)
Carries(content, colour) ==
    \E j \in 1..Len(content) : content[j] \in {colour, "\"" \o colour \o "\""}

\* C18: in every flavor the styling output carries each of the colour keys
\* primary, secondary, background and text: the plan's value when the key is
\* present, the fixed fallback literal when it is absent.
C18_ColoursCarried ==
    (genCalled /\ SitePlanValid(genPlan) /\ ~genResult.threw) =>
        \A key \in ColourKeys :
            LET colour == Get(Get(Get(genPlan, "style"), "colors"), key)
                styles == ContentAt(genResult.files, StylePath(ReqFramework))
            IN  Carries(styles, IF colour.k = "str" THEN colour.s ELSE FallbackColour(key))

\* the sections of the plan handed to the generator
GenSections == Get(genPlan, "sections").a

\* the generated markup file of the request's flavor
GenMarkup == ContentAt(genResult.files, MarkupPath(ReqFramework))

\* the positions, in order, where a section fragment opens in the markup
FragmentStarts(content) ==
    SelectSeq([j \in 1..Len(content) |-> j],
              LAMBDA j : content[j] \in {VanillaSectionOpen, NextSectionOpen,
                                         ReactHeroOpen, ReactFeaturesOpen})

\* the fragment opening at position j is the one of this section
FragmentOf(content, j, section) ==
    \/ /\ content[j] = VanillaSectionOpen
       /\ <<content[j + 1]>> = ToStr(Get(section, "id"))
    \/ /\ content[j] = NextSectionOpen
       /\ <<content[j + 1]>>
            = ToStr(IF Truthy(Get(Get(section, "props"), "title"))
                    THEN Get(Get(section, "props"), "title")
                    ELSE Get(section, "type"))
    \/ /\ content[j] = ReactHeroOpen
       /\ Get(section, "type") = Str("hero")
    \/ /\ content[j] = ReactFeaturesOpen
       /\ Get(section, "type") = Str("features")

\* C19: in every flavor the generated markup has exactly one fragment per
\* entry of plan.sections, in input order: the i-th fragment is the one of the
\* i-th section, duplicates included, and no section is dropped.
C19_OneFragmentPerSection ==
    (genCalled /\ SitePlanValid(genPlan) /\ ~genResult.threw) =>
        LET starts == FragmentStarts(GenMarkup)
        IN  /\ Len(starts) = Len(GenSections)
            /\ \A i \in 1..Len(starts) : FragmentOf(GenMarkup, starts[i], GenSections[i])

\* the sections that get a typed fragment in the flavor, in order
TypedSections(fw) ==
    IF fw = "react"
    THEN SelectSeq(GenSections, LAMBDA section : Get(section, "type").s \in {"hero", "features"})
    ELSE GenSections

\* the last position of the i-th fragment
FragmentEnd(content, starts, i) ==
    IF i < Len(starts) THEN starts[i + 1] - 1 ELSE Len(content)

\* the fragment spanning first..last shows the title text
ShowsTitle(content, first, last, title) ==
    \E j \in (first + 1)..last :
        /\ content[j] = title
        /\ content[j - 1] \in {VanillaHeroTitleOpen, ReactHeroOpen}

\* the fragment spanning first..last has an empty item list
EmptyItemList(content, first, last) ==
    \/ \E j \in first..(last - 1) :
          /\ content[j] = VanillaGridOpen
          /\ content[j + 1] = VanillaGridClose
    \/ \E j \in first..(last - 2) :
          /\ content[j] = ReactGridOpen
          /\ content[j + 1] = "[]"
          /\ content[j + 2] = ReactGridClose

\* C20: in the flavors that render typed fragments (vanilla, react), a hero
\* section whose props has no title is rendered with the title "Welcome" and a
\* features section whose props has no items with an empty item list.
C20_FieldDefaults ==
    (/\ genCalled
     /\ SitePlanValid(genPlan)
     /\ ~genResult.threw
     /\ ReqFramework \in {"vanilla", "react"})
    => LET typed  == TypedSections(ReqFramework)
           starts == FragmentStarts(GenMarkup)
       IN  \A i \in 1..Len(typed) :
              LET props == Get(typed[i], "props")
                  last  == FragmentEnd(GenMarkup, starts, i)
              IN  /\ i <= Len(starts)
                  /\ (Get(typed[i], "type") = Str("hero") /\ Get(props, "title").k = "undef")
                        => ShowsTitle(GenMarkup, starts[i], last, "Welcome")
                  /\ (Get(typed[i], "type") = Str("features") /\ Get(props, "items").k = "undef")
                        => EmptyItemList(GenMarkup, starts[i], last)

\* a hero without title and a features without items were rendered
C20_Witness ==
    /\ genCalled
    /\ ~genResult.threw
    /\ ReqFramework \in {"vanilla", "react"}
    /\ GenSections = <<Sec("hero", "hero", <<>>), Sec("features", "features", <<>>)>>

---------------------------------------------------------------------------
(* Concurrency claim                                                       *)

\* C16: when requests are handled concurrently, in any interleaving, each
\* response is computed from that request's own body and own AI reply only: a
\* generate response carries the request's own plan and the files the generator
\* yields for that plan and the request's own framework, an export response the
\* archive of the request's own file list.
C16_ResponsesFromOwnInputs ==
    \A r \in 1..NumRequests :
        (conc[r].pc = "responded" /\ conc[r].response.status = 200) =>
            IF conc[r].kind = "generate"
            THEN /\ conc[r].response.plan = conc[r].reply.val
                 /\ conc[r].response.files
                      = buildFilesFromPlan(conc[r].reply.val,
                                           Get(conc[r].body.val, "framework").s).files
            ELSE conc[r].response.buffer = zipFiles(Get(conc[r].body.val, "files").a)

\* two generate requests of different flavors, the second started before the
\* first was answered, both answered 200
C16_Witness ==
    /\ conc[1].kind = "generate" /\ conc[2].kind = "generate"
    /\ conc[1].response.status = 200 /\ conc[2].response.status = 200
    /\ Get(conc[1].body.val, "framework") # Get(conc[2].body.val, "framework")
    /\ conc[1].reply # conc[2].reply

---------------------------------------------------------------------------
(* Failures of the AI step as the caller sees them                         *)

\* the response the handler gives when the AI call itself failed
AICallFailedResponse == CatchResponse(generateSitePlan([kind |-> "reject", val |-> Undef]).err)

\* C21: the response is the same (status and error message) whether the AI
\* call failed, the reply was not parseable as JSON, or the reply was JSON
\* that does not have the SitePlan shape.
C21_AIFailuresIndistinguishable ==
    (/\ Responded
     /\ \/ aiReply.kind = "reject"
        \/ aiReply.kind = "garbage"
        \/ aiReply.kind = "json" /\ ~SitePlanValid(aiReply.val))
    => /\ response.status = AICallFailedResponse.status
       /\ response.error = AICallFailedResponse.error

\* C22 as stated: an empty or unparseable reply fails with the message
\* "AI response empty or malformed", without a retry.
C22_EmptyOrMalformedMessage ==
    (Responded /\ aiReply.kind \in {"nocontent", "empty", "garbage"}) =>
        /\ response.error = "AI response empty or malformed"
        /\ aiCalls = 1

\* C22 (amended): an empty or unparseable reply makes generateSitePlan fail
\* with the message "Failed to generate site plan"; the handler answers 500
\* with that message, the generator does not run and no second AI call is made.
C22_EmptyOrUnparseableFails ==
    (Responded /\ aiReply.kind \in {"nocontent", "empty", "garbage"}) =>
        /\ response.status = 500
        /\ response.error = "Failed to generate site plan"
        /\ ~genCalled
        /\ aiCalls = 1

\* a reply that is not JSON was answered
C22_Witness ==
    /\ Responded
    /\ aiReply.kind = "garbage"
    /\ response.status = 500
    /\ aiCalls = 1

---------------------------------------------------------------------------
(* Browser-side claims                                                     *)

C26_SlotMatchesState ==
    /\ (ui.page = "Home" /\ ~ui.isGenerating) =>
          (~ui.windowData.isSet \/ ui.windowData = ui.generatedData)
    /\ ui.page = "Preview" => ~ui.previewData.isLoading

\* some submission is waiting for its fetch
Busy == ui.isGenerating \/ ui.loading

C28_SubmittedBodiesAccepted ==
    \A i \in 1..Len(ui.sent) :
        StrLen(Get(ui.sent[i], "intent").s) <= 2000 => SatisfiesBuildRequest(ui.sent[i])

---------------------------------------------------------------------------
(* Every request is answered once, every error with an error response      *)

\* an error was raised while the generate request was handled
GenerateErrorRaised ==
    \/ ~body.json
    \/ ~SatisfiesBuildRequest(body.val)
    \/ aiReply.kind \notin {"none", "json"}
    \/ genResult.threw

\* an error was raised while the export request was handled
ExportErrorRaised ==
    \/ ~xBody.json
    \/ GeneratedFilesIssues(xBody.val) # <<>>
    \/ zipOutcome = "rejected"

\* C23: a generate request whose AI call returns or fails is eventually
\* answered, every answered generate or export request has exactly one
\* response (once set it is not replaced while the request lasts), and every
\* error raised on the way (validation, generation, archive) gives an error
\* response with no plan, files or archive.
C23_EveryRequestAnswered ==
    /\ (pc = "awaitAI") ~> (pc = "responded")
    /\ [](Responded => response.status # 0)
    /\ [](XResponded => xResponse.status # 0)
    /\ [][/\ response # NoResponse => response' \in {response, NoResponse}
          /\ xResponse # NoXResponse => xResponse' \in {xResponse, NoXResponse}]_vars
    /\ []((Responded /\ GenerateErrorRaised) =>
             /\ response.status \in {400, 500}
             /\ response.keys \subseteq {"error", "details"}
             /\ response.files = <<>>)
    /\ []((XResponded /\ ExportErrorRaised) =>
             /\ xResponse.status = 500
             /\ xResponse.keys = {"error"}
             /\ xResponse.buffer = NoBuffer)

\* the generator threw after the AI call returned, and the request was answered
C23_Witness ==
    /\ Responded
    /\ aiReply.kind = "json"
    /\ genResult.threw
    /\ response.status = 500

---------------------------------------------------------------------------
(* Generated file set claims                                               *)

\* the '/'-separated segments of a path ("" first for a path starting with '/')
PathSegments(name) ==
    CASE name \in {"index.html", "styles.css", "main.js", "package.json",
                   "tailwind.config.ts"} -> <<name>>
      [] name = "src/App.jsx" -> <<"src", "App.jsx">>
      [] name = "src/main.jsx" -> <<"src", "main.jsx">>
      [] name = "src/App.css" -> <<"src", "App.css">>
      [] name = "public/index.html" -> <<"public", "index.html">>
      [] name = "app/page.tsx" -> <<"app", "page.tsx">>
      [] name = "app/layout.tsx" -> <<"app", "layout.tsx">>
      [] name = "app/globals.css" -> <<"app", "globals.css">>
      [] OTHER -> <<"", name>>

\* a path that names a place below the archive root
IsRelativePath(name) ==
    LET segments == PathSegments(name)
    IN  \A i \in 1..Len(segments) : segments[i] \notin {"", ".", ".."}

\* the generated list as the export handler receives it
GeneratedFileVals(files) == [i \in 1..Len(files) |-> FileVal(files[i].path, files[i].content)]

\* C24: for every plan and every flavor the paths of the list returned by
\* buildFilesFromPlan are pairwise distinct and relative, and the archive made
\* of the list holds every generated file with its content.
C24_PathsDistinctAndRelative ==
    (genCalled /\ ~genResult.threw) =>
        LET files   == genResult.files
            entries == FileEntries(zipFiles(GeneratedFileVals(files)))
        IN  /\ Len(files) > 0
            /\ \A i, j \in 1..Len(files) : files[i].path = files[j].path => i = j
            /\ \A i \in 1..Len(files) : IsRelativePath(files[i].path)
            /\ Len(entries) = Len(files)
            /\ \A i \in 1..Len(files) :
                   \E j \in 1..Len(entries) :
                       /\ entries[j].name = files[i].path
                       /\ entries[j].content = files[i].content

\* a react file list, whose files lie in folders, was generated from a plan
\* with sections
C24_Witness ==
    /\ genCalled
    /\ ~genResult.threw
    /\ ReqFramework = "react"
    /\ Len(genResult.files) = 5
    /\ Get(genPlan, "sections").k = "arr"
    /\ Len(Get(genPlan, "sections").a) > 0
    /\ Len(Unzip(zipFiles(GeneratedFileVals(genResult.files)))) > 5

\* the number of occurrences of a chunk in a generated text
Occurrences(content, chunk) == Cardinality({i \in 1..Len(content) : content[i] = chunk})

\* C29: in the react flavor, for every plan, src/App.jsx declares Hero and
\* Features, which App's return always renders, each exactly once.
C29_ComponentsDeclaredOnce ==
    (genCalled /\ SitePlanValid(genPlan) /\ ~genResult.threw /\ ReqFramework = "react") =>
        LET app == ContentAt(genResult.files, "src/App.jsx")
        IN  /\ Occurrences(app, ReactHeroOpen) = 1
            /\ Occurrences(app, ReactFeaturesOpen) = 1

\* the local files a generated text names: the chunk after each reference opener
LocalRefs(content) ==
    {content[i + 1] : i \in {j \in 1..(Len(content) - 1) :
        content[j] \in {StylesheetHrefOpen, ScriptSrcOpen, ImportCssOpen,
                        ImportGlobalsOpen, ImportAppOpen}}}

\* a reference without its leading "./"
RefName(ref) ==
    CASE ref = "./App" -> "App"
      [] ref = "./App.css" -> "App.css"
      [] ref = "./globals.css" -> "globals.css"
      [] OTHER -> ref

\* the paths a reference made in the file at path from may resolve to: the
\* name in the folder of the referring file, as written or with a module extension
Resolve(from, ref) ==
    LET folder == ParentFolder(from)
        base   == IF folder = "" THEN RefName(ref) ELSE folder \o "/" \o RefName(ref)
    IN  IF ref = "./App" THEN {base \o ".js", base \o ".jsx"} ELSE {base}

\* the references each flavor's files are to make
ExpectedRefs(framework, path) ==
    CASE framework = "vanilla" /\ path = "index.html" -> {"styles.css", "main.js"}
      [] framework = "react" /\ path = "src/main.jsx" -> {"./App"}
      [] framework = "react" /\ path = "src/App.jsx" -> {"./App.css"}
      [] framework = "next" /\ path = "app/layout.tsx" -> {"./globals.css"}
      [] OTHER -> {}

\* C30: for every flavor and every plan, each local file a generated file
\* refers to (index.html to styles.css and main.js; src/main.jsx to ./App;
\* src/App.jsx to ./App.css; app/layout.tsx to ./globals.css) is in the same
\* file list at the path the reference resolves to.
C30_LocalReferencesPresent ==
    (genCalled /\ ~genResult.threw) =>
        LET files == genResult.files
        IN  \A i \in 1..Len(files) :
                /\ LocalRefs(files[i].content) = ExpectedRefs(ReqFramework, files[i].path)
                /\ \A ref \in LocalRefs(files[i].content) :
                       \E j \in 1..Len(files) :
                           files[j].path \in Resolve(files[i].path, ref)

\* a vanilla list was generated whose page names its style sheet and script
C30_Witness ==
    /\ genCalled
    /\ ~genResult.threw
    /\ ReqFramework = "vanilla"
    /\ LocalRefs(ContentAt(genResult.files, "index.html")) = {"styles.css", "main.js"}
    /\ \E j \in 1..Len(genResult.files) : genResult.files[j].path = "styles.css"

====
